---- MODULE Spec2Model ----
(***************************************************************************)
(* Model of two RustPython primitives:                                     *)
(*   vm/src/builtins/map.rs  - PyMap: next and length_hint                 *)
(*   common/src/str.rs       - try_get_chars, get_chars, char_range_end,   *)
(*                             repr, choose_quotes_for_repr                *)
(***************************************************************************)
EXTENDS Integers, Sequences, FiniteSets, TLC

VARIABLES
    \* ---- PyMap (map.rs) ----
    mapper,      \* PyMap.mapper: the kind of callable held
    iterators,   \* PyMap.iterators: sequence of source records
    pc,          \* "idle" between calls, "next" inside SlotIterator::next
    idx,         \* cursor of zelf.iterators.iter() inside next (0 when idle)
    next_objs,   \* the values collected so far in the current next call
    log,         \* events of the current (or last finished) next call
    result,      \* what the last finished next call returned
    hist,        \* one entry per finished next call: how it ended
    hint_in,     \* what iterator::length_hint answered, per source queried
    hint_res,    \* what PyMap::length_hint returned
    budget,      \* how many next calls the driver of this run makes at most
    \* ---- str.rs ----
    text,        \* the input text, as its sequence of Unicode scalar values
    build,       \* "debug": overflow checks on (panic), "release": off (wrap)
    op,          \* the function applied: "none", "try_get_chars", "get_chars", "repr"
    rng,         \* the RangeBounds<usize> argument of try_get_chars / get_chars
    res,         \* what the function returned
    r_pc,        \* repr: "off", "scan" (sizing pass), "sized" (buffer requested), "done"
    r_i,         \* repr: number of characters the sizing pass has consumed
    out_len,     \* repr: out_len
    squote,      \* repr: squote
    dquote,      \* repr: dquote
    quote,       \* repr: the quote character chosen (0 before the choice)
    unchanged,   \* repr: unchanged
    cap          \* repr: the capacity asked of String::with_capacity (-1: none asked)

mapvars == <<mapper, iterators, pc, idx, next_objs, log, result, hist, hint_in, hint_res, budget>>

strvars == <<text, build, op, rng, res, r_pc, r_i, out_len, squote, dquote, quote, unchanged, cap>>

vars == <<mapvars, strvars>>

(***************************************************************************)
(* Bounds of the model                                                     *)
(***************************************************************************)
MaxSources == 2
MaxSrcLen == 2
MaxCalls == 3
MaxPlainSources == 3
MaxPlainLen == 4
MaxPlainCalls == 5
MaxHint == 5
MaxHintCalls == 1
MaxChars == 3
MaxReprChars == 3
UsizeBits == 5

(***************************************************************************)
(* Small helpers                                                           *)
(***************************************************************************)
Max(a, b) == IF a >= b THEN a ELSE b

Min(a, b) == IF a <= b THEN a ELSE b

RECURSIVE SeqsUpTo(_, _)
\* all sequences over S of length 0..n
SeqsUpTo(S, n) ==
    IF n = 0 THEN {<<>>}
    ELSE LET shorter == SeqsUpTo(S, n - 1)
         IN  shorter \cup {Append(q, x) : q \in {p \in shorter : Len(p) = n - 1}, x \in S}

(***************************************************************************)
(* The environment of PyMap: iteration capabilities and the callable       *)
(***************************************************************************)
\* The three outcomes of a pull or of an invocation (PyResult: Ok(value),
\* Err(StopIteration), Err(any other exception)).
Value(v) == [tag |-> "value", val |-> v]

Stop == [tag |-> "stop", val |-> <<>>]

Error == [tag |-> "error", val |-> <<>>]

NoResult == [tag |-> "none", val |-> <<>>]

\* A source holds len values; "sticky" keeps reporting stop once exhausted,
\* "reset" reports stop once and then starts over, "raise" raises at its end.
SourceKinds == {"sticky", "reset", "raise"}

Source(i, n, k) == [id |-> i, len |-> n, pos |-> 0, kind |-> k, stopped |-> FALSE]

\* the k-th value (k = 1, 2, ...) of source i
SrcVal(i, k) == 10 * i + k

\* PyIter::next on one source: the outcome and the source afterwards
PullOutcome(it) ==
    IF it.pos < it.len THEN Value(<<SrcVal(it.id, it.pos + 1)>>)
    ELSE IF it.kind = "raise" THEN Error
    ELSE Stop

PullEffect(it) ==
    IF it.pos < it.len THEN [it EXCEPT !.pos = it.pos + 1]
    ELSE IF it.kind = "sticky" THEN [it EXCEPT !.stopped = TRUE]
    ELSE IF it.kind = "reset" THEN [it EXCEPT !.stopped = TRUE, !.pos = 0]
    ELSE it

\* vm.invoke on the mapper: a "total" callable always returns a value, a
\* "partial" one may also raise StopIteration or another exception.  The value
\* returned for arguments args is the tuple of the arguments.
MapperKinds == {"total", "partial"}

InvokeOutcomes(m, args) ==
    IF m = "total" THEN {Value(args)} ELSE {Value(args), Stop, Error}

(***************************************************************************)
(* PyMap::next  (map.rs 49-60)                                             *)
(***************************************************************************)
PullEv(i, t) == [ev |-> "pull", src |-> i, tag |-> t]

InvokeEv(t) == [ev |-> "invoke", src |-> 0, tag |-> t]

\* (variant) a fused map: it remembers a reported termination and stops pulling
FusedSticky(terminated) == terminated

\* PyMap has no exhausted field and next reads none: a call enters the pull
\* loop whatever earlier calls returned.
Fused(terminated) == FALSE

\* zelf.iterators.iter(): iteration starts at the first element
IterStart == 1

\* (variant) pulling goes on past a source that stopped or raised
ShortCircuitNever(out) == FALSE

\* `?` on collect::<Result<Vec<_>, _>>(): the first Err ends the pulling
ShortCircuit(out) == out.tag # "value"

\* (variant) the pulled object is pushed at the front
CollectPushFront(acc, out) == out.val \o acc

\* collect into the Vec: the pulled object is pushed at the back
CollectPush(acc, out) == acc \o out.val

\* (variant) a StopIteration leaving the callable is turned into an error
StopToError(out) == IF out.tag = "stop" THEN Error ELSE out

\* the tail expression of next: the result of vm.invoke is returned as it is
MapperResult(out) == out

Terminated == \E j \in 1..Len(hist) : hist[j] \in {"stop_src", "stop_fn"}

HistTag(out, byMapper) ==
    IF out.tag = "value" THEN "value"
    ELSE IF out.tag = "error" THEN "error"
    ELSE IF byMapper THEN "stop_fn" ELSE "stop_src"

Return(out, byMapper) ==
    /\ pc' = "idle"
    /\ idx' = 0
    /\ next_objs' = <<>>
    /\ result' = out
    /\ hist' = Append(hist, HistTag(out, byMapper))

NextStart ==
    /\ pc = "idle"
    /\ UNCHANGED strvars
    /\ Len(hist) < budget
    /\ log' = <<>>
    /\ hint_in' = <<>>
    /\ hint_res' = NoResult
    /\ IF Fused(Terminated)
       THEN /\ Return(Stop, FALSE)
            /\ UNCHANGED <<mapper, iterators, budget>>
       ELSE /\ pc' = "next"
            /\ idx' = IterStart
            /\ next_objs' = <<>>
            /\ result' = NoResult
            /\ UNCHANGED <<mapper, iterators, hist, budget>>

NextPull ==
    /\ pc = "next"
    /\ UNCHANGED strvars
    /\ idx <= Len(iterators)
    /\ LET out == PullOutcome(iterators[idx])
       IN  /\ iterators' = [iterators EXCEPT ![idx] = PullEffect(iterators[idx])]
           /\ log' = Append(log, PullEv(idx, out.tag))
           /\ IF ShortCircuit(out)
              THEN Return(out, FALSE)
              ELSE /\ next_objs' = CollectPush(next_objs, out)
                   /\ idx' = idx + 1
                   /\ UNCHANGED <<pc, result, hist>>
    /\ UNCHANGED <<mapper, hint_in, hint_res, budget>>

NextInvoke ==
    /\ pc = "next"
    /\ UNCHANGED strvars
    /\ idx > Len(iterators)
    /\ \E out \in InvokeOutcomes(mapper, next_objs) :
           /\ log' = Append(log, InvokeEv(out.tag))
           /\ Return(MapperResult(out), TRUE)
    /\ UNCHANGED <<mapper, iterators, hint_in, hint_res, budget>>

(***************************************************************************)
(* PyMap::length_hint  (map.rs 38-45)                                      *)
(***************************************************************************)
\* iterator::length_hint: Ok(Some(n)), Ok(None) or Err
HintOutcomes == {[tag |-> "some", n |-> n] : n \in 0..MaxHint}
                    \cup {[tag |-> "none", n |-> 0], [tag |-> "err", n |-> 0]}

\* .unwrap_or(0)
UnwrapOr0(h) == IF h.tag = "some" THEN h.n ELSE 0

\* (variant) the closure keeps the smaller of the two
HintMin(prev, cur) == Min(prev, cur)

\* the closure of try_fold: max of the accumulator and the current hint

HintStep(prev, cur) == Max(prev, cur)

RECURSIVE TryFold(_, _)
\* try_fold(0, ..) over the answers hs: `?` ends it at the first Err
TryFold(prev, hs) ==
    IF hs = <<>> THEN [tag |-> "ok", n |-> prev]
    ELSE IF Head(hs).tag = "err" THEN [tag |-> "err", n |-> 0]
    ELSE TryFold(HintStep(prev, UnwrapOr0(Head(hs))), Tail(hs))

RECURSIVE Queried(_)
\* the answers actually obtained: none after the first Err
Queried(hs) ==
    IF hs = <<>> THEN <<>>
    ELSE IF Head(hs).tag = "err" THEN <<Head(hs)>>
    ELSE <<Head(hs)>> \o Queried(Tail(hs))

\* The driver asks for the hint at most once between two next calls.
LengthHint ==
    /\ pc = "idle"
    /\ UNCHANGED strvars
    /\ hint_res = NoResult
    /\ \E hs \in [1..Len(iterators) -> HintOutcomes] :
           /\ hint_in' = Queried(hs)
           /\ hint_res' = TryFold(0, hs)
    /\ UNCHANGED <<mapper, iterators, pc, idx, next_objs, log, result, hist, budget>>

(***************************************************************************)
(* Construction (map.rs 27-34) and the specifications of PyMap             *)
(***************************************************************************)
\* the source lists a constructor call can be given: lo..hi sources of the
\* given kinds, each holding 0..maxLen values
SourceLists(kinds, lo, hi, maxLen) ==
    UNION {{[i \in 1..n |-> Source(i, lens[i], ks[i])] :
               lens \in [1..n -> 0..maxLen], ks \in [1..n -> kinds]} : n \in lo..hi}

\* no function of str.rs is in use
StrOff ==
    /\ text = <<>>
    /\ build = "release"
    /\ op = "none"
    /\ rng = <<>>
    /\ res = [tag |-> "none", val |-> <<>>]
    /\ r_pc = "off"
    /\ r_i = 0
    /\ out_len = 0
    /\ squote = 0
    /\ dquote = 0
    /\ quote = 0
    /\ unchanged = FALSE
    /\ cap = -1

PyNew(m, its, calls) ==
    /\ StrOff
    /\ mapper = m
    /\ iterators = its
    /\ pc = "idle"
    /\ idx = 0
    /\ next_objs = <<>>
    /\ log = <<>>
    /\ result = NoResult
    /\ hist = <<>>
    /\ hint_in = <<>>
    /\ hint_res = NoResult
    /\ budget = calls

NextMap == NextStart \/ NextPull \/ NextInvoke

\* any callable over any sources
InitMap ==
    \E m \in MapperKinds : \E its \in SourceLists(SourceKinds, 0, MaxSources, MaxSrcLen) :
        PyNew(m, its, MaxCalls)

SpecMap == InitMap /\ [][NextMap]_vars

\* a callable that always returns, over one or more finite sources that never raise
InitPlain ==
    \E its \in SourceLists({"sticky"}, 1, MaxPlainSources, MaxPlainLen) :
        PyNew("total", its, MaxPlainCalls)

SpecPlain == InitPlain /\ [][NextMap]_vars

\* length_hint between next calls
InitHint ==
    \E its \in SourceLists({"sticky"}, 0, MaxSources, MaxSrcLen) :
        PyNew("total", its, MaxHintCalls)

NextHint == NextStart \/ NextPull \/ NextInvoke \/ LengthHint

SpecHint == InitHint /\ [][NextHint]_vars

(***************************************************************************)
(* Properties of PyMap                                                     *)
(***************************************************************************)
NSources == Len(iterators)

LastCall == hist[Len(hist)]

RECURSIVE MinLen(_)
MinLen(its) ==
    IF Len(its) = 1 THEN its[1].len ELSE Min(its[1].len, MinLen(Tail(its)))

\* C1: in every next call the sources are pulled one at a time in list order;
\* the first pull that reports termination or an error is the last event of
\* the call (no later source is pulled, the callable is not invoked) and the
\* call returns that same outcome.
MapShortCircuits ==
    \A j \in 1..Len(log) :
        log[j].ev = "pull" =>
            /\ log[j].src = j
            /\ j <= NSources
            /\ log[j].tag # "value" =>
                  /\ j = Len(log)
                  /\ pc = "idle"
                  /\ result.tag = log[j].tag
                  /\ LastCall = (IF log[j].tag = "stop" THEN "stop_src" ELSE "error")

\* C1 witness: with two sources, a call that pulled a value from the
\* first source and then met the second source's end, after an earlier call
\* that produced a value.
MapShortCircuitsWitness ==
    /\ NSources = 2
    /\ pc = "idle"
    /\ log = <<PullEv(1, "value"), PullEv(2, "stop")>>
    /\ result = Stop
    /\ Len(hist) = 2
    /\ hist[1] = "value"

\* C2: over one or more finite sources that never raise, with a callable that
\* always returns, exactly the first min(source lengths) next calls produce a
\* value and every later call reports termination; the k-th produced value is
\* the callable's value for the k-th values of all sources in list order.
MapStopsAtShortest ==
    /\ \A j \in 1..Len(hist) :
          hist[j] = (IF j <= MinLen(iterators) THEN "value" ELSE "stop_src")
    /\ (pc = "idle" /\ hist # <<>>) =>
          IF Len(hist) <= MinLen(iterators)
          THEN result = Value([i \in 1..NSources |-> SrcVal(i, Len(hist))])
          ELSE result = Stop

\* C2 witness: sources of length 2, 3 and 4 have produced two values and the
\* third call has reported termination.
MapStopsAtShortestWitness ==
    /\ NSources = 3
    /\ iterators[1].len = 2 /\ iterators[2].len = 3 /\ iterators[3].len = 4
    /\ hist = <<"value", "value", "stop_src">>
    /\ result = Stop

\* C7: the callable is invoked only as the last step of a call, after one pull
\* of every source gave a value, and at most once; a call in which every source
\* gave a value invokes it exactly once; when it signals a voluntary stop the
\* call reports termination, not an error.
MapperStopTerminates ==
    /\ \A j \in 1..Len(log) :
          log[j].ev = "invoke" =>
              /\ j = Len(log)
              /\ j = NSources + 1
              /\ \A i \in 1..NSources : log[i] = PullEv(i, "value")
              /\ pc = "idle"
              /\ result.tag = log[j].tag
              /\ log[j].tag = "stop" => (result = Stop /\ LastCall = "stop_fn")
    /\ (/\ pc = "idle"
        /\ hist # <<>>
        /\ Len(log) >= NSources
        /\ \A i \in 1..NSources : log[i] = PullEv(i, "value"))
          => (Len(log) = NSources + 1 /\ log[NSources + 1].ev = "invoke")

\* C7 witness: both sources gave a value and the callable then stopped.
MapperStopTerminatesWitness ==
    /\ NSources = 2
    /\ pc = "idle"
    /\ log = <<PullEv(1, "value"), PullEv(2, "value"), InvokeEv("stop")>>
    /\ result = Stop

StickyStopped ==
    \E i \in 1..NSources : iterators[i].kind = "sticky" /\ iterators[i].stopped

\* C10: every finished next call, those after a reported termination included,
\* has pulled the sources again from the first one; and once a source whose
\* stop signal is sticky has reported termination, no call produces a value or
\* invokes the callable.
NoExhaustedFlag ==
    /\ (pc = "idle" /\ hist # <<>> /\ NSources > 0) =>
          (log # <<>> /\ log[1].ev = "pull" /\ log[1].src = 1)
    /\ (pc = "idle" /\ hist # <<>> /\ NSources = 0) =>
          (Len(log) = 1 /\ log[1].ev = "invoke")
    /\ StickyStopped =>
          /\ result.tag # "value"
          /\ \A j \in 1..Len(log) : log[j].ev # "invoke"

\* C10 witness: the first call ended by the callable's voluntary stop, the
\* second call produced a value all the same, and the third met the end of a
\* sticky source.
NoExhaustedFlagWitness ==
    /\ hist = <<"stop_fn", "value", "stop_src">>
    /\ StickyStopped
    /\ log[1].ev = "pull" /\ log[1].src = 1

HintAnswered == hint_res # NoResult

\* C8: length_hint returns the maximum over the sources of each source's own
\* hint, a missing hint counting as 0 (0 without sources), unless a hint query
\* fails, and then that failure; a length_hint call pulls nothing and changes
\* neither the sources nor the callable.
LengthHintIsMax ==
    /\ [](HintAnswered =>
            IF \E j \in 1..Len(hint_in) : hint_in[j].tag = "err"
            THEN hint_res.tag = "err"
            ELSE /\ hint_res.tag = "ok"
                 /\ Len(hint_in) = NSources
                 /\ \A j \in 1..NSources : UnwrapOr0(hint_in[j]) <= hint_res.n
                 /\ \/ hint_res.n = 0
                    \/ \E j \in 1..NSources : hint_in[j] = [tag |-> "some", n |-> hint_res.n])
    /\ [][(HintAnswered' /\ <<hint_in, hint_res>>' # <<hint_in, hint_res>>) =>
            (/\ iterators' = iterators
             /\ mapper' = mapper
             /\ log' = log
             /\ hist' = hist
             /\ pc' = pc)]_vars

\* C8 witness: two sources answered 2 and 5 and length_hint returned 5.
LengthHintIsMaxWitness ==
    /\ hint_in = <<[tag |-> "some", n |-> 2], [tag |-> "some", n |-> 5]>>
    /\ hint_res = [tag |-> "ok", n |-> 5]

(***************************************************************************)
(* str.rs: machine integers and UTF-8                                      *)
(***************************************************************************)
\* usize is UsizeBits wide here; isize::MAX is half of its range
UsizeRange == 2 ^ UsizeBits

USIZE_MAX == UsizeRange - 1

ISIZE_MAX == 2 ^ (UsizeBits - 1) - 1

Builds == {"debug", "release"}

Ok(v) == [ok |-> TRUE, v |-> v]

Overflowed == [ok |-> FALSE, v |-> 0]

\* a + b on usize: a panic with overflow checks, a wrap without
AddUsize(b, x, y) ==
    IF x + y <= USIZE_MAX THEN Ok(x + y)
    ELSE IF b = "debug" THEN Overflowed ELSE Ok((x + y) % UsizeRange)

\* a - b on usize: a panic with overflow checks, a wrap without
SubUsize(b, x, y) ==
    IF x >= y THEN Ok(x - y)
    ELSE IF b = "debug" THEN Overflowed ELSE Ok(x - y + UsizeRange)

\* char::len_utf8
Utf8Len(c) ==
    IF c < 128 THEN 1 ELSE IF c < 2048 THEN 2 ELSE IF c < 65536 THEN 3 ELSE 4

\* the UTF-8 bytes of one scalar value
EncodeChar(c) ==
    IF c < 128 THEN <<c>>
    ELSE IF c < 2048 THEN <<192 + (c \div 64), 128 + (c % 64)>>
    ELSE IF c < 65536
         THEN <<224 + (c \div 4096), 128 + ((c \div 64) % 64), 128 + (c % 64)>>
         ELSE <<240 + (c \div 262144), 128 + ((c \div 4096) % 64),
                128 + ((c \div 64) % 64), 128 + (c % 64)>>

RECURSIVE Encode(_)
\* the storage of a text: the &str the functions are given
Encode(cs) == IF cs = <<>> THEN <<>> ELSE EncodeChar(Head(cs)) \o Encode(Tail(cs))

\* the width of the character whose first byte is b0
LeadWidth(b0) == IF b0 < 128 THEN 1 ELSE IF b0 < 224 THEN 2 ELSE IF b0 < 240 THEN 3 ELSE 4

\* the scalar value stored at the front of the non-empty byte sequence s
FirstChar(s) ==
    LET w == LeadWidth(s[1])
    IN  IF w = 1 THEN s[1]
        ELSE IF w = 2 THEN (s[1] - 192) * 64 + (s[2] - 128)
        ELSE IF w = 3 THEN (s[1] - 224) * 4096 + (s[2] - 128) * 64 + (s[3] - 128)
        ELSE (s[1] - 240) * 262144 + (s[2] - 128) * 4096 + (s[3] - 128) * 64 + (s[4] - 128)

\* Chars::as_str after one Chars::next on a non-empty s
DropChar(s) == SubSeq(s, LeadWidth(s[1]) + 1, Len(s))

RECURSIVE Chars(_)
\* str::chars, collected
Chars(s) == IF s = <<>> THEN <<>> ELSE <<FirstChar(s)>> \o Chars(DropChar(s))

RECURSIVE CharIndicesFrom(_, _)
CharIndicesFrom(s, at) ==
    IF s = <<>> THEN <<>>
    ELSE <<[index |-> at, c |-> FirstChar(s)]>>
             \o CharIndicesFrom(DropChar(s), at + LeadWidth(s[1]))

\* str::char_indices, collected: byte offset and character
CharIndices(s) == CharIndicesFrom(s, 0)

(***************************************************************************)
(* str.rs 3-36: try_get_chars, get_chars, char_range_end                   *)
(***************************************************************************)
Some(v) == [tag |-> "some", val |-> v]

None == [tag |-> "none", val |-> <<>>]

Panic == [tag |-> "panic", val |-> <<>>]

\* a RangeBounds<usize>: start and end bound, each Included, Excluded or Unbounded
Bounds(vals) ==
    {[kind |-> k, at |-> v] : k \in {"inc", "exc"}, v \in vals} \cup {[kind |-> "unb", at |-> 0]}

\* (variant) the end is the byte after the first byte of the last character
CharEndOneByte(index, c) == index + 1

\* index + c.len_utf8()
CharEnd(index, c) == index + Utf8Len(c)

\* char_range_end(s, nchars)
char_range_end(s, nchars) ==
    IF nchars = 0 THEN Some(0)                      \* checked_sub(1) = None
    ELSE LET ci == CharIndices(s)
         IN  IF nchars - 1 < Len(ci)                \* .nth(last_char_index)?
             THEN Some(CharEnd(ci[nchars].index, ci[nchars].c))
             ELSE None

RECURSIVE SkipChars(_, _)
\* for _ in 0..start { chars.next()?; }  then chars.as_str()
SkipChars(s, n) ==
    IF n = 0 THEN Some(s)
    ELSE IF s = <<>> THEN None
    ELSE SkipChars(DropChar(s), n - 1)

\* match range.start_bound()
StartOf(b, r) ==
    IF r[1].kind = "inc" THEN Ok(r[1].at)
    ELSE IF r[1].kind = "exc" THEN AddUsize(b, r[1].at, 1)
    ELSE Ok(0)

\* match range.end_bound(), for the bounded ends
RangeLenOf(b, r, start) ==
    IF r[2].kind = "inc"
    THEN LET e == AddUsize(b, r[2].at, 1)
         IN  IF e.ok THEN SubUsize(b, e.v, start) ELSE Overflowed
    ELSE SubUsize(b, r[2].at, start)

try_get_chars(b, s, r) ==
    LET start == StartOf(b, r)
    IN  IF ~start.ok THEN Panic
        ELSE LET rest == SkipChars(s, start.v)
             IN  IF rest.tag = "none" THEN None
                 ELSE IF r[2].kind = "unb" THEN Some(rest.val)
                 ELSE LET n == RangeLenOf(b, r, start.v)
                      IN  IF ~n.ok THEN Panic
                          ELSE LET end == char_range_end(rest.val, n.v)
                               IN  IF end.tag = "none" THEN None
                                   ELSE Some(SubSeq(rest.val, 1, end.val))

\* try_get_chars(s, range).unwrap()
get_chars(b, s, r) ==
    LET got == try_get_chars(b, s, r) IN IF got.tag = "none" THEN Panic ELSE got

\* the characters of the texts sliced: one of each UTF-8 width
SliceAlphabet == {97, 233, 8364, 128512}

\* the positions a range bound may name
BoundVals == (0..(MaxChars + 1)) \cup {USIZE_MAX}

Ranges == Bounds(BoundVals) \X Bounds(BoundVals)

\* a &str holds at most isize::MAX bytes
Texts(alphabet, n) == {cs \in SeqsUpTo(alphabet, n) : Len(Encode(cs)) <= ISIZE_MAX}

StrInit(cs, b) ==
    /\ text = cs
    /\ build = b
    /\ op = "none"
    /\ rng = <<>>
    /\ res = None
    /\ r_i = 0
    /\ out_len = 0
    /\ squote = 0
    /\ dquote = 0
    /\ quote = 0
    /\ unchanged = FALSE
    /\ cap = -1

MapOff ==
    /\ mapper = "total"
    /\ iterators = <<>>
    /\ pc = "idle"
    /\ idx = 0
    /\ next_objs = <<>>
    /\ log = <<>>
    /\ result = NoResult
    /\ hist = <<>>
    /\ hint_in = <<>>
    /\ hint_res = NoResult
    /\ budget = 0

ReprVars == <<r_pc, r_i, out_len, squote, dquote, quote, unchanged, cap>>

TryGetChars ==
    /\ op = "none"
    /\ \E r \in Ranges :
           /\ rng' = r
           /\ res' = try_get_chars(build, Encode(text), r)
    /\ op' = "try_get_chars"
    /\ UNCHANGED <<text, build, ReprVars, mapvars>>

GetChars ==
    /\ op = "none"
    /\ \E r \in Ranges :
           /\ rng' = r
           /\ res' = get_chars(build, Encode(text), r)
    /\ op' = "get_chars"
    /\ UNCHANGED <<text, build, ReprVars, mapvars>>

InitChars ==
    /\ MapOff
    /\ r_pc = "off"
    /\ \E cs \in Texts(SliceAlphabet, MaxChars) : \E b \in Builds : StrInit(cs, b)

NextChars == TryGetChars \/ GetChars

SpecChars == InitChars /\ [][NextChars]_vars

(***************************************************************************)
(* Properties of try_get_chars and get_chars                               *)
(***************************************************************************)
NChars == Len(text)

\* the half-open character range lo..hi that the bounds r denote
Lo(r) == IF r[1].kind = "inc" THEN r[1].at ELSE IF r[1].kind = "exc" THEN r[1].at + 1 ELSE 0

Hi(r) == IF r[2].kind = "inc" THEN r[2].at + 1 ELSE IF r[2].kind = "exc" THEN r[2].at ELSE NChars

ValidRange(r) == Lo(r) <= Hi(r) /\ Hi(r) <= NChars

AllAscii == \A k \in 1..NChars : text[k] < 128

\* C3: for every valid character range, get_chars returns exactly the storage
\* of the characters at those positions, whatever their widths; for an
\* all-ASCII text that is the byte slice of the same range.
GetCharsSlicesByCharacter ==
    (op = "get_chars" /\ ValidRange(rng)) =>
        /\ res = Some(Encode(SubSeq(text, Lo(rng) + 1, Hi(rng))))
        /\ AllAscii => res.val = SubSeq(Encode(text), Lo(rng) + 1, Hi(rng))

\* C3 witness: the range 1..3 of a text of a 2-byte, a 3-byte and a 4-byte
\* character gave the last two characters, seven bytes.
GetCharsSlicesByCharacterWitness ==
    /\ op = "get_chars"
    /\ text = <<233, 8364, 128512>>
    /\ rng = <<[kind |-> "inc", at |-> 1], [kind |-> "exc", at |-> 3]>>
    /\ res.tag = "some"
    /\ Len(res.val) = 7

\* C4: try_get_chars never panics; it returns the absence marker when the
\* start exceeds the character count or the requested length exceeds the
\* remaining characters, and the full substring of a valid range.
TryGetCharsTotal ==
    op = "try_get_chars" =>
        /\ res.tag # "panic"
        /\ (Lo(rng) > NChars \/ Hi(rng) > NChars) => res = None
        /\ ValidRange(rng) => res = Some(Encode(SubSeq(text, Lo(rng) + 1, Hi(rng))))

(***************************************************************************)
(* str.rs 78-175: repr and choose_quotes_for_repr                          *)
(***************************************************************************)
SQuote == 39

DQuote == 34

Backslash == 92

\* crate::char::is_printable on the characters of the model: of the non-ASCII
\* ones, U+00E9, U+20AC and U+1F600 are printable, U+0085, U+200B and U+E0001
\* are not
is_printable(c) ==
    IF c < 128 THEN c >= 32 /\ c < 127 ELSE c \in {233, 8364, 128512}

\* the characters of the texts represented
ReprAlphabet == {SQuote, DQuote, Backslash, 10, 1, 127, 97, 233, 133, 8203, 128512, 917505}

\* (variant) the double quote is chosen whenever there is a single quote
UseDquoteAnySquote(num_squotes, num_dquotes) == num_squotes > 0

\* let use_dquote = num_squotes > 0 && num_dquotes == 0
UseDquote(num_squotes, num_dquotes) == num_squotes > 0 /\ num_dquotes = 0

\* (variant) no inner quote is counted as needing a backslash
NoEscapedQuotes(num_squotes, num_dquotes) == 0

\* the second component: the number of quotes that need to be escaped
NumEscapedQuotes(num_squotes, num_dquotes) ==
    IF UseDquote(num_squotes, num_dquotes) THEN num_dquotes ELSE num_squotes

choose_quotes_for_repr(num_squotes, num_dquotes) ==
    [quote |-> IF UseDquote(num_squotes, num_dquotes) THEN DQuote ELSE SQuote,
     n |-> NumEscapedQuotes(num_squotes, num_dquotes)]

\* the match of the sizing pass: the bytes ch will take in the output
Incr(ch) ==
    IF ch = SQuote \/ ch = DQuote THEN 1
    ELSE IF ch \in {Backslash, 9, 13, 10} THEN 2
    ELSE IF ch < 32 \/ ch = 127 THEN 4
    ELSE IF ch < 128 THEN 1
    ELSE IF is_printable(ch) THEN Utf8Len(ch)
    ELSE IF ch < 256 THEN 4
    ELSE IF ch < 65536 THEN 6
    ELSE 10

\* one lower-case hexadecimal digit, as its ASCII byte
HexDigit(d) == IF d < 10 THEN 48 + d ELSE 87 + d

RECURSIVE Hex(_, _)
\* {:0width x}
Hex(n, width) ==
    IF width = 0 THEN <<>> ELSE Hex(n \div 16, width - 1) \o <<HexDigit(n % 16)>>

\* the match of the emission pass: what is written for ch
Emit(ch, q) ==
    IF ch = 10 THEN <<Backslash, 110>>
    ELSE IF ch = 9 THEN <<Backslash, 116>>
    ELSE IF ch = 13 THEN <<Backslash, 114>>
    ELSE IF ch >= 32 /\ ch <= 126
         THEN (IF ch = q \/ ch = Backslash THEN <<Backslash>> ELSE <<>>) \o <<ch>>
    ELSE IF ch < 128 THEN <<Backslash, 120>> \o Hex(ch, 2)
    ELSE IF is_printable(ch) THEN EncodeChar(ch)
    ELSE IF ch <= 255 THEN <<Backslash, 120>> \o Hex(ch, 2)
    ELSE IF ch <= 65535 THEN <<Backslash, 117>> \o Hex(ch, 4)
    ELSE <<Backslash, 85>> \o Hex(ch, 8)

RECURSIVE SlowBody(_, _)
\* for ch in s.chars() { ... } of the slow path
SlowBody(cs, q) == IF cs = <<>> THEN <<>> ELSE Emit(Head(cs), q) \o SlowBody(Tail(cs), q)

\* the sizing pass, one character per step (str.rs 86-111)
ReprScan ==
    /\ r_pc = "scan"
    /\ LET cs == Chars(Encode(text))
       IN  /\ r_i < Len(cs)
           /\ LET ch == cs[r_i + 1]
                  incr == Incr(ch)
              IN  /\ squote' = IF ch = SQuote THEN squote + 1 ELSE squote
                  /\ dquote' = IF ch = DQuote THEN dquote + 1 ELSE dquote
                  /\ IF out_len > ISIZE_MAX - incr
                     THEN /\ res' = None
                          /\ r_pc' = "done"
                          /\ UNCHANGED <<out_len, r_i>>
                     ELSE /\ out_len' = out_len + incr
                          /\ r_i' = r_i + 1
                          /\ UNCHANGED <<res, r_pc>>
    /\ UNCHANGED <<text, build, op, rng, quote, unchanged, cap, mapvars>>

\* the quote choice, the final length and the buffer request (str.rs 113-123)
ReprSize ==
    /\ r_pc = "scan"
    /\ r_i = Len(Chars(Encode(text)))
    /\ LET q == choose_quotes_for_repr(squote, dquote)
           withq == AddUsize(build, out_len, q.n)
           total == IF withq.ok THEN AddUsize(build, withq.v, 2) ELSE Overflowed
       IN  /\ quote' = q.quote
           /\ IF ~total.ok
              THEN /\ res' = Panic
                   /\ r_pc' = "done"
                   /\ UNCHANGED <<out_len, unchanged, cap>>
              ELSE /\ unchanged' = (withq.v = Len(Encode(text)))
                   /\ out_len' = total.v
                   /\ cap' = total.v
                   \* String::with_capacity panics beyond isize::MAX bytes
                   /\ IF total.v > ISIZE_MAX
                      THEN res' = Panic /\ r_pc' = "done"
                      ELSE res' = res /\ r_pc' = "sized"
    /\ UNCHANGED <<text, build, op, rng, r_i, squote, dquote, mapvars>>

\* the emission (str.rs 124-163)
ReprEmit ==
    /\ r_pc = "sized"
    /\ LET s == Encode(text)
           body == IF unchanged THEN s ELSE SlowBody(Chars(s), quote)
       IN  res' = Some(<<quote>> \o body \o <<quote>>)
    /\ r_pc' = "done"
    /\ UNCHANGED <<text, build, op, rng, r_i, out_len, squote, dquote, quote, unchanged, cap, mapvars>>

InitRepr ==
    /\ MapOff
    /\ r_pc = "scan"
    /\ \E cs \in Texts(ReprAlphabet, MaxReprChars) : \E b \in Builds : StrInit(cs, b)

NextRepr == ReprScan \/ ReprSize \/ ReprEmit

SpecRepr == InitRepr /\ [][NextRepr]_vars

(***************************************************************************)
(* Properties of repr                                                      *)
(***************************************************************************)
Has(c) == \E k \in 1..Len(text) : text[k] = c

HexVal(d) == IF d >= 97 THEN d - 87 ELSE d - 48

RECURSIVE HexNum(_)
HexNum(ds) == IF ds = <<>> THEN 0 ELSE HexNum(SubSeq(ds, 1, Len(ds) - 1)) * 16 + HexVal(ds[Len(ds)])

Tok(c, f) == [c |-> c, form |-> f]

RECURSIVE Unescape(_)
\* Reads a body back: one token per character denoted, with the form it was
\* written in: "raw" (itself), "bs" (a backslash and itself), "named" (\n, \t,
\* \r) or "hex" (\xHH, \uHHHH, \UHHHHHHHH); "bad" ends a body that does not parse.
Unescape(b) ==
    IF b = <<>> THEN <<>>
    ELSE IF b[1] # Backslash
         THEN IF LeadWidth(b[1]) > Len(b) THEN <<Tok(-1, "bad")>>
              ELSE <<Tok(FirstChar(b), "raw")>> \o Unescape(DropChar(b))
    ELSE IF Len(b) < 2 THEN <<Tok(-1, "bad")>>
    ELSE LET e == b[2]
             digits == IF e = 120 THEN 2 ELSE IF e = 117 THEN 4 ELSE IF e = 85 THEN 8 ELSE 0
         IN  IF e = 110 THEN <<Tok(10, "named")>> \o Unescape(SubSeq(b, 3, Len(b)))
             ELSE IF e = 116 THEN <<Tok(9, "named")>> \o Unescape(SubSeq(b, 3, Len(b)))
             ELSE IF e = 114 THEN <<Tok(13, "named")>> \o Unescape(SubSeq(b, 3, Len(b)))
             ELSE IF digits > 0
                  THEN IF Len(b) < 2 + digits THEN <<Tok(-1, "bad")>>
                       ELSE <<Tok(HexNum(SubSeq(b, 3, 2 + digits)), "hex")>>
                                \o Unescape(SubSeq(b, 3 + digits, Len(b)))
             ELSE <<Tok(e, "bs")>> \o Unescape(SubSeq(b, 3, Len(b)))

Returned == r_pc = "done" /\ res.tag = "some"

Body == SubSeq(res.val, 2, Len(res.val) - 1)

\* C5: the result is wrapped in double quotes exactly when the text has a
\* single quote and no double quote, in single quotes otherwise; read back, the
\* body denotes the text character by character, each occurrence of the chosen
\* quote and each backslash written as a backslash and itself, the quote that
\* was not chosen written as itself.
ReprQuotes ==
    Returned =>
        LET q == IF Has(SQuote) /\ ~Has(DQuote) THEN DQuote ELSE SQuote
            other == IF q = SQuote THEN DQuote ELSE SQuote
            toks == Unescape(Body)
        IN  /\ Len(res.val) >= 2
            /\ res.val[1] = q
            /\ res.val[Len(res.val)] = q
            /\ Len(toks) = Len(text)
            /\ \A k \in 1..Len(text) :
                  /\ toks[k].c = text[k]
                  /\ text[k] \in {q, Backslash} => toks[k].form = "bs"
                  /\ text[k] = other => toks[k].form = "raw"

\* C5 witness: a text with single quotes and no double quote came back in
\* double quotes with nothing escaped.
ReprQuotesWitness ==
    /\ Returned
    /\ text = <<SQuote, 97, SQuote>>
    /\ res.val = <<DQuote, SQuote, 97, SQuote, DQuote>>

\* the representation length: the per-character costs, one per occurrence of
\* the chosen quote, and 2 for the bounding quotes
ComputedLen ==
    LET RECURSIVE Sum(_)
        Sum(cs) == IF cs = <<>> THEN 0 ELSE Incr(Head(cs)) + Sum(Tail(cs))
        q == IF Has(SQuote) /\ ~Has(DQuote) THEN DQuote ELSE SQuote
    IN  Sum(text) + Cardinality({k \in 1..Len(text) : text[k] = q}) + 2

\* C6: the length counter never exceeds isize::MAX, no buffer of a larger size
\* is requested, and a text whose computed representation length exceeds
\* isize::MAX gets the overflow failure with no buffer requested.
ReprLengthWithinMax ==
    /\ out_len <= ISIZE_MAX
    /\ cap <= ISIZE_MAX
    /\ (r_pc = "done" /\ ComputedLen > ISIZE_MAX) => (res = None /\ cap = -1)

\* no character of the text needs an escape under quote q
NoEscapeNeeded(q) ==
    \A k \in 1..Len(text) :
        LET c == text[k]
        IN  /\ c # Backslash
            /\ c # q
            /\ c >= 32 /\ c # 127
            /\ c >= 128 => is_printable(c)

\* C9: the fast path is taken exactly when no character needs an escape under
\* the chosen quote; a result of the fast path equals what the slow emission
\* writes for the same text, and its body is the text's storage unchanged.
ReprFastPathExact ==
    /\ r_pc \in {"sized", "done"} /\ cap # -1 => (unchanged <=> NoEscapeNeeded(quote))
    /\ (Returned /\ unchanged) =>
          /\ res.val = <<quote>> \o SlowBody(text, quote) \o <<quote>>
          /\ Body = Encode(text)

\* C9 witness: a text with a single quote and a printable non-ASCII character
\* went through the fast path.
ReprFastPathExactWitness ==
    /\ Returned
    /\ unchanged
    /\ text = <<SQuote, 233, 97>>
    /\ Len(res.val) = 6

====
